---- MODULE Spec2Model ----
(***************************************************************************)
(* The word-replacer content script (src/unnamed/part_000, lines 1-387)    *)
(* together with the settings store it reads and the writers of that       *)
(* store (popup.js, options.js, service_worker.js).                        *)
(*                                                                         *)
(* Text is a sequence of one-character strings.  The page is one fixed     *)
(* document tree; the browser's event loop is modelled as tasks (one       *)
(* action each) with the MutationObserver records delivered in a           *)
(* microtask right after the task that produced them.                      *)
(***************************************************************************)
EXTENDS Integers, Sequences, FiniteSets, TLC

(***************************************************************************)
(* Bounds of the model.                                                    *)
(***************************************************************************)
MaxStoreWrites == 2      \* operations the store's writers may start in one run
MaxPageMutations == 1    \* text changes the page's own scripts may make

(***************************************************************************)
(* Characters and strings.                                                 *)
(***************************************************************************)
LowerLetters == <<"a", "b", "c", "d", "e", "i", "n", "o", "r", "t", "f", "h", "s">>
UpperLetters == <<"A", "B", "C", "D", "E", "I", "N", "O", "R", "T", "F", "H", "S">>

IndexIn(c, letters) ==
  IF \E i \in 1..Len(letters) : letters[i] = c
    THEN CHOOSE i \in 1..Len(letters) : letters[i] = c
    ELSE 0

toUpperChar(c) ==
  IF IndexIn(c, LowerLetters) # 0 THEN UpperLetters[IndexIn(c, LowerLetters)] ELSE c

toLowerChar(c) ==
  IF IndexIn(c, UpperLetters) # 0 THEN LowerLetters[IndexIn(c, UpperLetters)] ELSE c

toUpperCase(s) == [i \in 1..Len(s) |-> toUpperChar(s[i])]

toLowerCase(s) == [i \in 1..Len(s) |-> toLowerChar(s[i])]

\* /[A-Z]/
IsUpperLetter(c) == IndexIn(c, UpperLetters) # 0

\* \w of the regular expression: letters (digits and "_" are not in the alphabet)
IsWordChar(c) == IndexIn(c, LowerLetters) # 0 \/ IndexIn(c, UpperLetters) # 0

IsSpace(c) == c = " "

slice(s, from) == SubSeq(s, from, Len(s))

RECURSIVE trimStart(_)
trimStart(s) ==
  IF s # <<>> /\ IsSpace(Head(s)) THEN trimStart(Tail(s)) ELSE s

RECURSIVE trimEnd(_)
trimEnd(s) ==
  IF s # <<>> /\ IsSpace(s[Len(s)]) THEN trimEnd(SubSeq(s, 1, Len(s) - 1)) ELSE s

trim(s) == trimEnd(trimStart(s))

Range(s) == {s[i] : i \in 1..Len(s)}

\* the smaller of two numbers
Min(a, b) == IF a < b THEN a ELSE b

(***************************************************************************)
(* preserveCase: adapt the replacement to the case of the matched text.    *)
(***************************************************************************)
preserveCase(from, to) ==
  IF from = <<>> THEN to
  ELSE IF Len(from) <= 2 THEN to
  ELSE IF toUpperCase(from) = from /\ \E i \in 1..Len(from) : IsUpperLetter(from[i])
    THEN toUpperCase(to)
  ELSE IF from[1] = toUpperChar(from[1]) /\ slice(from, 2) = toLowerCase(slice(from, 2))
    THEN IF to = <<>> THEN <<>>
         ELSE <<toUpperChar(to[1])>> \o toLowerCase(slice(to, 2))
  ELSE IF toLowerCase(from) = from THEN toLowerCase(to)
  ELSE to

(***************************************************************************)
(* Replacement groups and the combined pattern (buildCombinedRegex).       *)
(* A compiled pattern is the list of alternatives "(word)" or              *)
(* "(\bword\b)", each an escaped literal, joined by "|" and compiled with  *)
(* the flags "gi"; mappings[i] belongs to alternative i.                   *)
(***************************************************************************)
Group(replacement, words, matchWholeWords, caseInsensitive) ==
  [replacement |-> replacement, words |-> words,
   matchWholeWords |-> matchWholeWords, caseInsensitive |-> caseInsensitive]

FallbackReplacement == <<"C", "o", "c", "a", "i", "n", "e">>

MaxPatterns == 500

NullRegex == [isNull |-> TRUE, regex |-> <<>>, mappings |-> <<>>]

\* words.map(w => w ? w.trim() : '').filter(Boolean)
TrimmedWords(words) ==
  LET trimmed == [i \in 1..Len(words) |-> trim(words[i])]
      nonEmpty(w) == w # <<>>
  IN SelectSeq(trimmed, nonEmpty)

\* the truth value of group[flag]: false for a field the group lacks
Truthy(group, flag) == flag \in DOMAIN group /\ group[flag]

GroupEntries(group) ==
  [i \in 1..Len(TrimmedWords(group.words)) |->
     [word |-> TrimmedWords(group.words)[i],
      whole |-> Truthy(group, "matchWholeWords"),
      replacement |-> IF group.replacement = <<>> THEN FallbackReplacement
                      ELSE group.replacement,
      caseInsensitive |-> Truthy(group, "caseInsensitive")]]

RECURSIVE AllEntries(_)
AllEntries(groups) ==
  IF groups = <<>> THEN <<>>
  ELSE GroupEntries(Head(groups)) \o AllEntries(Tail(groups))

\* a list left as long as it is
Uncapped(all) == all

\* allPatterns.length = 500; groupMappings.length = 500
Capped(all) == IF Len(all) > MaxPatterns THEN SubSeq(all, 1, MaxPatterns) ELSE all

\* a stored word that is not a string (a number, say) is written as the
\* one-element list holding this marker, which is no character
NotAString == "<number>"

IsString(w) == \A i \in 1..Len(w) : w[i] # NotAString

\* a body that throws nothing
NeverThrows(groups) == FALSE

\* w.trim() on a truthy word that is not a string throws a TypeError
Throws(groups) ==
  \E i \in 1..Len(groups) : \E k \in 1..Len(groups[i].words) :
    ~IsString(groups[i].words[k])

\* the catch clause returns null whatever the loop had collected
buildCombinedRegex(groups) ==
  IF groups = <<>> THEN NullRegex
  ELSE IF Throws(groups) THEN NullRegex
  ELSE LET all == AllEntries(groups)
           kept == Capped(all)
       IN IF all = <<>> THEN NullRegex
          ELSE [isNull |-> FALSE,
                regex |-> [i \in 1..Len(kept) |->
                             [word |-> kept[i].word, whole |-> kept[i].whole]],
                mappings |-> [i \in 1..Len(kept) |->
                             [replacement |-> kept[i].replacement,
                              caseInsensitive |-> kept[i].caseInsensitive]]]

(***************************************************************************)
(* What the compiled RegExp does on a text.                                *)
(***************************************************************************)
WordCharAt(text, p) == p >= 1 /\ p <= Len(text) /\ IsWordChar(text[p])

\* an assertion that holds at every position
AnyPosition(text, p) == TRUE

\* \b at the gap before position p
Boundary(text, p) == WordCharAt(text, p - 1) # WordCharAt(text, p)

\* alternative pat matches at position i, letters compared ignoring case
MatchesAt(text, i, pat) ==
  /\ i + Len(pat.word) - 1 <= Len(text)
  /\ \A k \in 1..Len(pat.word) : toLowerChar(text[i + k - 1]) = toLowerChar(pat.word[k])
  /\ pat.whole => Boundary(text, i) /\ Boundary(text, i + Len(pat.word))

\* the last alternative that matches at i, 0 when none does
LastAltAt(text, i, cr) ==
  IF \E k \in 1..Len(cr.regex) : MatchesAt(text, i, cr.regex[k])
    THEN CHOOSE k \in 1..Len(cr.regex) :
           /\ MatchesAt(text, i, cr.regex[k])
           /\ \A j \in (k + 1)..Len(cr.regex) : ~MatchesAt(text, i, cr.regex[j])
    ELSE 0

\* the first alternative that matches at i, 0 when none does
AltAt(text, i, cr) ==
  IF \E k \in 1..Len(cr.regex) : MatchesAt(text, i, cr.regex[k])
    THEN CHOOSE k \in 1..Len(cr.regex) :
           /\ MatchesAt(text, i, cr.regex[k])
           /\ \A j \in 1..(k - 1) : ~MatchesAt(text, i, cr.regex[j])
    ELSE 0

\* regex.test(text), lastIndex being 0
RegexTest(text, cr) == \E i \in 1..Len(text) : AltAt(text, i, cr) # 0

\* the replace callback: match is the whole match, captured the text of
\* capture group groupIndex, which spans the whole alternative
Callback(match, captured, groupIndex, cr) ==
  IF groupIndex < 1 \/ groupIndex > Len(cr.mappings) THEN match
  ELSE LET mapping == cr.mappings[groupIndex]
       IN IF ~mapping.caseInsensitive /\ captured # match THEN match
          ELSE preserveCase(match, mapping.replacement)

\* to.toUpperCase(), to.charAt(0) or to.toLowerCase() is called on a
\* replacement that is not a string: a TypeError.  The branches that return
\* to as it is throw nothing.
preserveCaseThrows(from, to) ==
  /\ ~IsString(to)
  /\ from # <<>>
  /\ Len(from) > 2
  /\ \/ toUpperCase(from) = from /\ \E i \in 1..Len(from) : IsUpperLetter(from[i])
     \/ from[1] = toUpperChar(from[1]) /\ slice(from, 2) = toLowerCase(slice(from, 2))
     \/ toLowerCase(from) = from

\* the replace callback throws
CallbackThrows(match, captured, groupIndex, cr) ==
  /\ groupIndex >= 1
  /\ groupIndex <= Len(cr.mappings)
  /\ ~(~cr.mappings[groupIndex].caseInsensitive /\ captured # match)
  /\ preserveCaseThrows(match, cr.mappings[groupIndex].replacement)

\* String(value), which replace applies to what the callback returns: the
\* stored number reads "7"
ToText(value) == IF IsString(value) THEN value ELSE <<"7">>

\* (CHOOSE r \in {f(x) : x \in {e}} : TRUE is f(e) with e evaluated once)
RECURSIVE ReplaceFrom(_, _, _)
ReplaceFrom(text, i, cr) ==
  IF i > Len(text) THEN <<>>
  ELSE LET rest(k) ==
             IF k = 0 THEN <<text[i]>> \o ReplaceFrom(text, i + 1, cr)
             ELSE LET n == Len(cr.regex[k].word)
                      match == SubSeq(text, i, i + n - 1)
                  IN ToText(Callback(match, match, k, cr)) \o ReplaceFrom(text, i + n, cr)
       IN CHOOSE r \in {rest(k) : k \in {AltAt(text, i, cr)}} : TRUE

\* some call of the callback throws while replace goes through the text
RECURSIVE ThrowsFrom(_, _, _)
ThrowsFrom(text, i, cr) ==
  IF i > Len(text) THEN FALSE
  ELSE LET rest(k) ==
             IF k = 0 THEN ThrowsFrom(text, i + 1, cr)
             ELSE LET n == Len(cr.regex[k].word)
                      match == SubSeq(text, i, i + n - 1)
                  IN \/ CallbackThrows(match, match, k, cr)
                     \/ ThrowsFrom(text, i + n, cr)
       IN \E k \in {AltAt(text, i, cr)} : rest(k)

\* text.replace(regex, callback) ends with an exception, which takes a
\* replacement that is not a string
ReplaceThrows(text, cr) ==
  /\ \E k \in 1..Len(cr.mappings) : ~IsString(cr.mappings[k].replacement)
  /\ ThrowsFrom(text, 1, cr)

\* a replace that stops after the first match, as without the flag g
ReplaceFirst(text, cr) ==
  IF \A i \in 1..Len(text) : AltAt(text, i, cr) = 0 THEN text
  ELSE LET i == CHOOSE p \in 1..Len(text) :
                  /\ AltAt(text, p, cr) # 0
                  /\ \A q \in 1..(p - 1) : AltAt(text, q, cr) = 0
           n == Len(cr.regex[AltAt(text, i, cr)].word)
           match == SubSeq(text, i, i + n - 1)
       IN SubSeq(text, 1, i - 1)
            \o ToText(Callback(match, match, AltAt(text, i, cr), cr))
            \o SubSeq(text, i + n, Len(text))

\* text.replace(regex, callback)
RegexReplace(text, cr) == ReplaceFrom(text, 1, cr)

(***************************************************************************)
(* The document.  A fixed tree with one text node in each kind of place:   *)
(*                                                                         *)
(*   html                                                                  *)
(*    |- div ------------------- t1    plain content                       *)
(*    |   `--------------------- t6    plain content, after t1             *)
(*    |- noscript -- p --------- t2    excluded grandparent                *)
(*    |- script ---------------- t3    excluded parent                     *)
(*    |- editor -- span -------- t4    inside a contenteditable element    *)
(*    |- select -- optgroup ---- t5    inside a form control               *)
(*    `- list ------------------ i1, i2, ...   on a long page only         *)
(*                                                                         *)
(* A page is short (the text nodes t1..t6) or long (the list and its       *)
(* items as well); the text nodes of the page are the domain of doc.       *)
(***************************************************************************)
NoNode == "none"

VARIABLES
  doc,                \* nodeValue of every text node
  detached            \* the roots of the subtrees that are not in the document

\* the size of a batch of walkAndReplace
BatchSize == 100

\* the list holds one text node more than a batch takes
ItemCount == BatchSize + 1

Item(k) == "i" \o ToString(k)

ItemOrder == [k \in 1..ItemCount |-> Item(k)]

ItemNodes == Range(ItemOrder)

ShortOrder == <<"t1", "t6", "t2", "t3", "t4", "t5">>

\* the text nodes of the page
TextNodes == DOMAIN doc

\* the text nodes of the page in document order
TextOrder == IF Item(1) \in TextNodes THEN ShortOrder \o ItemOrder ELSE ShortOrder

ElementNodes == {"html", "div", "noscript", "p", "script", "editor", "span",
                 "select", "optgroup", "list"}

\* the place of every node in the tree
TreeParent(n) ==
  CASE n = "html" -> NoNode
    [] n \in {"div", "noscript", "script", "editor", "select", "list"} -> "html"
    [] n \in {"t1", "t6"} -> "div"
    [] n = "p" -> "noscript"
    [] n = "t2" -> "p"
    [] n = "t3" -> "script"
    [] n = "span" -> "editor"
    [] n = "t4" -> "span"
    [] n = "optgroup" -> "select"
    [] n = "t5" -> "optgroup"
    [] n \in ItemNodes -> "list"
    [] OTHER -> NoNode

parentNode(n) == IF n \in detached THEN NoNode ELSE TreeParent(n)

nodeName(n) ==
  CASE n = "html" -> "HTML"
    [] n \in {"div", "editor"} -> "DIV"
    [] n = "noscript" -> "NOSCRIPT"
    [] n = "p" -> "P"
    [] n = "script" -> "SCRIPT"
    [] n = "span" -> "SPAN"
    [] n = "select" -> "SELECT"
    [] n = "optgroup" -> "OPTGROUP"
    [] n = "list" -> "UL"
    [] OTHER -> "#text"

\* the elements carrying the contenteditable attribute
EditableHosts == {"editor"}

RECURSIVE Ancestors(_)
Ancestors(n) ==
  IF parentNode(n) = NoNode THEN {}
  ELSE {parentNode(n)} \cup Ancestors(parentNode(n))

\* n is in the document, the tree the observer watches
InDocument(n) == n = "html" \/ "html" \in Ancestors(n)

\* the DOM's isContentEditable, inherited from the enclosing editing host
isContentEditable(n) == ({n} \cup Ancestors(n)) \cap EditableHosts # {}

ExcludedTags == {"SCRIPT", "STYLE", "NOSCRIPT", "IFRAME", "INPUT", "TEXTAREA",
                 "SELECT", "OPTION"}

shouldSkipNode(node) ==
  IF node = NoNode THEN TRUE
  ELSE IF isContentEditable(node) THEN TRUE
  ELSE IF \E parent \in Ancestors(node) :
            \/ isContentEditable(parent)
            \/ nodeName(parent) \in {"INPUT", "TEXTAREA", "SELECT"}
    THEN TRUE
  ELSE nodeName(node) \in ExcludedTags

\* the tree walker's filter (SHOW_TEXT with acceptNode)
acceptNode(n) ==
  IF parentNode(n) = NoNode THEN FALSE
  ELSE ~shouldSkipNode(parentNode(n))

\* the text nodes the walker yields under root, in document order
WalkerTexts(root) ==
  LET keep(n) == root \in Ancestors(n) /\ acceptNode(n)
  IN SelectSeq(TextOrder, keep)

(***************************************************************************)
(* The apply engine.  A memory m is the part of the state a pass threads   *)
(* through its nodes: the texts, the processed-node cache, and the nodes   *)
(* written so far (in order).                                              *)
(***************************************************************************)
\* the catch clause leaves the node as it was, and unmarked
replaceInTextNode(m, textNode, cr) ==
  IF cr.isNull THEN m
  ELSE IF shouldSkipNode(parentNode(textNode)) THEN m
  ELSE IF textNode \in m.processed THEN m
  ELSE LET originalText == m.doc[textNode]
           write(replaced) ==
             IF replaced # originalText
               THEN [doc |-> [m.doc EXCEPT ![textNode] = replaced],
                     processed |-> m.processed \cup {textNode},
                     written |-> Append(m.written, textNode)]
               ELSE m
       IN IF Len(originalText) < 2 THEN m
          ELSE IF ~RegexTest(originalText, cr) THEN m
          ELSE IF ReplaceThrows(originalText, cr) THEN m
          ELSE CHOOSE r \in {write(replaced) :
                              replaced \in {RegexReplace(originalText, cr)}} : TRUE

\* a loop that the first exception ends: the nodes after it are not reached
RECURSIVE replaceUntilThrow(_, _, _)
replaceUntilThrow(m, nodes, cr) ==
  IF nodes = <<>> THEN m
  ELSE IF /\ ~cr.isNull
          /\ ~shouldSkipNode(parentNode(Head(nodes)))
          /\ Head(nodes) \notin m.processed
          /\ RegexTest(m.doc[Head(nodes)], cr)
          /\ ReplaceThrows(m.doc[Head(nodes)], cr)
    THEN m
  ELSE replaceUntilThrow(replaceInTextNode(m, Head(nodes), cr), Tail(nodes), cr)

\* nodes.forEach(replaceInTextNode), for (const node of nodes)
\* replaceInTextNode(node): the first half of the nodes in order, then the
\* second half (halving keeps the evaluation of a long list shallow)
RECURSIVE replaceEach(_, _, _)
replaceEach(m, nodes, cr) ==
  IF nodes = <<>> THEN m
  ELSE IF Len(nodes) = 1 THEN replaceInTextNode(m, nodes[1], cr)
  ELSE CHOOSE r \in {replaceEach(first, rest, cr) :
                      first \in {replaceEach(m, SubSeq(nodes, 1, Len(nodes) \div 2), cr)},
                      rest \in {SubSeq(nodes, (Len(nodes) \div 2) + 1, Len(nodes))}} : TRUE

\* textNodes.slice(i, i + 100) for i = 0, 100, ...
Batches(textNodes) ==
  [b \in 1..((Len(textNodes) + BatchSize - 1) \div BatchSize) |->
     SubSeq(textNodes, (b - 1) * BatchSize + 1, Min(b * BatchSize, Len(textNodes)))]

\* the for loop over the batches, one batch.forEach after the other
RECURSIVE replaceBatches(_, _, _)
replaceBatches(m, batches, cr) ==
  IF batches = <<>> THEN m
  ELSE CHOOSE r \in {replaceBatches(next, rest, cr) :
                      next \in {replaceEach(m, Head(batches), cr)},
                      rest \in {Tail(batches)}} : TRUE

walkAndReplace(m, root, cr) ==
  IF shouldSkipNode(root) THEN m
  ELSE CHOOSE r \in {replaceBatches(m, Batches(nodes), cr) :
                      nodes \in {WalkerTexts(root)}} : TRUE

\* a full pass that does not look at the enabled flag
applyAllIgnoringEnabled(m, st, cr) ==
  IF cr.isNull THEN m
  ELSE walkAndReplace([m EXCEPT !.processed = {}], "html", cr)

applyAll(m, st, cr) ==
  IF ~st.enabled \/ cr.isNull THEN m
  ELSE walkAndReplace([m EXCEPT !.processed = {}], "html", cr)

\* a list that keeps every node it is given, repeats included
AppendAll(acc, nodes) == acc \o nodes

\* insertion-ordered Set.add
AddAll(acc, nodes) ==
  LET fresh(n) == n \notin Range(acc)
  IN acc \o SelectSeq(nodes, fresh)

\* the loop over the queued nodes, halved like replaceEach
RECURSIVE CollectNodes(_, _)
CollectNodes(acc, nodes) ==
  IF nodes = <<>> THEN acc
  ELSE IF Len(nodes) = 1
    THEN LET node == nodes[1]
             found == IF node \in TextNodes THEN <<node>>
                      ELSE IF node \in ElementNodes /\ ~shouldSkipNode(node)
                        THEN WalkerTexts(node)
                      ELSE <<>>
         IN AddAll(acc, found)
  ELSE CHOOSE r \in {CollectNodes(first, rest) :
                      first \in {CollectNodes(acc, SubSeq(nodes, 1, Len(nodes) \div 2))},
                      rest \in {SubSeq(nodes, (Len(nodes) \div 2) + 1, Len(nodes))}} : TRUE

RECURSIVE Concat(_)
Concat(batches) == IF batches = <<>> THEN <<>> ELSE Head(batches) \o Concat(Tail(batches))

\* a pass that walks the whole document whatever was queued
wholeDocument(pending) == WalkerTexts("html")

\* the text nodes one debounced pass scans
nodesToProcess(pending) == CollectNodes(<<>>, Concat(pending))

(***************************************************************************)
(* The settings store (chrome.storage.sync) and its change notifications.  *)
(* A store value lists the keys present; the field of an absent key holds  *)
(* a fixed filler.                                                         *)
(***************************************************************************)
LegacyKeys == {"replacement", "words", "matchWholeWords", "caseInsensitive"}

StoreKeys == {"enabled", "replacementGroups"} \cup LegacyKeys

EmptyStore ==
  [keys |-> {}, enabled |-> FALSE, replacementGroups |-> <<>>, replacement |-> <<>>,
   words |-> <<>>, matchWholeWords |-> FALSE, caseInsensitive |-> FALSE]

\* chrome.storage.sync.set(items)
storageSet(st, items) ==
  [keys |-> st.keys \cup items.keys,
   enabled |-> IF "enabled" \in items.keys THEN items.enabled ELSE st.enabled,
   replacementGroups |-> IF "replacementGroups" \in items.keys
                           THEN items.replacementGroups ELSE st.replacementGroups,
   replacement |-> IF "replacement" \in items.keys
                           THEN items.replacement ELSE st.replacement,
   words |-> IF "words" \in items.keys THEN items.words ELSE st.words,
   matchWholeWords |-> IF "matchWholeWords" \in items.keys
                           THEN items.matchWholeWords ELSE st.matchWholeWords,
   caseInsensitive |-> IF "caseInsensitive" \in items.keys
                           THEN items.caseInsensitive ELSE st.caseInsensitive]

\* chrome.storage.sync.remove(ks)
storageRemove(st, ks) ==
  [keys |-> st.keys \ ks,
   enabled |-> IF "enabled" \in ks THEN FALSE ELSE st.enabled,
   replacementGroups |-> IF "replacementGroups" \in ks THEN <<>> ELSE st.replacementGroups,
   replacement |-> IF "replacement" \in ks THEN <<>> ELSE st.replacement,
   words |-> IF "words" \in ks THEN <<>> ELSE st.words,
   matchWholeWords |-> IF "matchWholeWords" \in ks THEN FALSE ELSE st.matchWholeWords,
   caseInsensitive |-> IF "caseInsensitive" \in ks THEN FALSE ELSE st.caseInsensitive]

SameValue(a, b, k) ==
  CASE k = "enabled" -> a.enabled = b.enabled
    [] k = "replacementGroups" -> a.replacementGroups = b.replacementGroups
    [] k = "replacement" -> a.replacement = b.replacement
    [] k = "words" -> a.words = b.words
    [] k = "matchWholeWords" -> a.matchWholeWords = b.matchWholeWords
    [] OTHER -> a.caseInsensitive = b.caseInsensitive

\* the keys of an onChanged event: those whose stored value changed
ChangedKeys(old, new) ==
  {k \in StoreKeys : \/ (k \in old.keys) # (k \in new.keys)
                     \/ k \in new.keys /\ ~SameValue(old, new, k)}

\* the changes object: the changed keys and the newValue of the two keys
\* the listener reads
Changes(old, new) ==
  [keys |-> ChangedKeys(old, new),
   enabled |-> "enabled" \in ChangedKeys(old, new) /\ new.enabled,
   replacementGroups |-> IF "replacementGroups" \in ChangedKeys(old, new)
                           THEN new.replacementGroups ELSE <<>>]

Notify(queue, old, new) ==
  IF ChangedKeys(old, new) = {} THEN queue ELSE Append(queue, Changes(old, new))

\* service_worker.js
DEFAULT_SETTINGS ==
  [keys |-> {"enabled"} \cup LegacyKeys,
   enabled |-> TRUE,
   replacementGroups |-> <<>>,
   replacement |-> <<"R", "E", "D", "A", "C", "T", "E", "D">>,
   words |-> << <<"f", "o", "o">>, <<"b", "a", "r">> >>,
   matchWholeWords |-> TRUE,
   caseInsensitive |-> TRUE]

(***************************************************************************)
(* loadSettings: the settings object each branch builds from what the      *)
(* store returned.                                                         *)
(***************************************************************************)
InitialSettings == [enabled |-> TRUE, replacementGroups |-> <<>>]

\* s.replacementGroups !== undefined
HasNewFormat(s) == "replacementGroups" \in s.keys

SettingsFromNew(s) ==
  [enabled |-> IF "enabled" \in s.keys THEN s.enabled ELSE TRUE,
   replacementGroups |-> s.replacementGroups]

\* a conversion that takes the flags as the store returned them
SettingsFromLegacyAsStored(legacy) ==
  [enabled |-> IF "enabled" \in legacy.keys THEN legacy.enabled ELSE TRUE,
   replacementGroups |->
     << Group(legacy.replacement, legacy.words,
              "matchWholeWords" \in legacy.keys /\ legacy.matchWholeWords,
              "caseInsensitive" \in legacy.keys /\ legacy.caseInsensitive) >>]

SettingsFromLegacy(legacy) ==
  [enabled |-> IF "enabled" \in legacy.keys THEN legacy.enabled ELSE TRUE,
   replacementGroups |->
     IF "words" \in legacy.keys /\ Len(legacy.words) > 0
       THEN << Group(IF "replacement" \in legacy.keys /\ legacy.replacement # <<>>
                       THEN legacy.replacement ELSE FallbackReplacement,
                     legacy.words,
                     IF "matchWholeWords" \in legacy.keys
                       THEN legacy.matchWholeWords ELSE TRUE,
                     IF "caseInsensitive" \in legacy.keys
                       THEN legacy.caseInsensitive ELSE TRUE) >>
       ELSE <<>>]

(***************************************************************************)
(* Inputs: the texts, the group lists and the initial stores of the runs.  *)
(***************************************************************************)
Texts == { <<"c", "a", "t">>, <<"a", "c", "t">> }

\* one case-sensitive whole-word group: "Cat" -> "dot"
CaseSensitiveGroups ==
  << Group(<<"d", "o", "t">>, << <<"C", "a", "t">> >>, TRUE, FALSE) >>

\* two groups whose replacements are each other's word: "cat" <-> "act"
SwapGroups ==
  << Group(<<"a", "c", "t">>, << <<"c", "a", "t">> >>, FALSE, TRUE),
     Group(<<"c", "a", "t">>, << <<"a", "c", "t">> >>, FALSE, TRUE) >>

GroupLists == { CaseSensitiveGroups, SwapGroups }

\* the lists the options page saves during a run
SavedGroupLists == { SwapGroups }

Items(ks, enabled, groups) ==
  [EmptyStore EXCEPT !.keys = ks, !.enabled = enabled, !.replacementGroups = groups]

\* an empty store, a store holding the installed legacy defaults, and
\* stores saved by the options page
InitialStores ==
  {EmptyStore, storageSet(EmptyStore, DEFAULT_SETTINGS)}
    \cup {Items({"enabled", "replacementGroups"}, TRUE, gl) : gl \in GroupLists}

\* every text node reads "cat", but the second one of the div and the one
\* under noscript, which read "foo"
InitialDocument ==
  [n \in Range(ShortOrder) |-> IF n \in {"t2", "t6"} THEN <<"f", "o", "o">>
                       ELSE <<"c", "a", "t">>]

\* the text nodes the page's own scripts (or the user, typing) change
PageNodes == {"t1"}

(***************************************************************************)
(* State.                                                                  *)
(***************************************************************************)
VARIABLES
  settings,           \* the in-memory Configuration
  compiledRegex,      \* the compiled matcher, NullRegex for null
  processedNodes,     \* the WeakSet of processed text nodes
  pendingMutations,   \* queued batches of nodes
  processingTimeout,  \* TRUE when the variable holds a timer id
  timers,             \* debounce timers armed and not yet fired or cleared
  observer,           \* "none", "connected" or "disconnected"
  records,            \* mutation records awaiting the observer's microtask
  idleCallback,       \* TRUE while init's requestIdleCallback is pending
  initPc,             \* init: "get1", "get2" (awaiting storage) or "done"
  awaiting,           \* change handlers suspended in loadSettings, per await
  store,              \* chrome.storage.sync
  notices,            \* onChanged events on their way to this page
  optionsPc,          \* options page save: "idle" or "remove"
  installPc,          \* install handler: "idle" or "write"
  storeWrites,        \* writer operations started so far
  pageMutations,      \* page changes so far
  call,               \* the frame of a preserveCase call: its arguments and,
                      \* once it has returned, its result
  applied,            \* history: a full pass with the current matcher ran
                      \* and the document has not changed since
  stoppedByNotice     \* history: a change with enabled=false was handled
                      \* and enabled has not been true since

vars == <<doc, settings, compiledRegex, processedNodes, pendingMutations,
          processingTimeout, timers, observer, records, idleCallback, initPc,
          awaiting, store, notices, optionsPc, installPc, storeWrites,
          pageMutations, applied, stoppedByNotice, detached, call>>

engineVars == <<doc, settings, compiledRegex, processedNodes, pendingMutations,
                processingTimeout, timers, observer, records, idleCallback, initPc,
                awaiting>>

storeVars == <<store, notices, optionsPc, installPc, storeWrites>>

historyVars == <<applied, stoppedByNotice>>

\* what no step of the engine or of the store's writers changes
outerVars == <<pageMutations, detached, call>>

\* no preserveCase call under way
NoCall == [from |-> <<>>, to |-> <<>>, returned |-> FALSE, result |-> <<>>]

\* the state the top level of the content script leaves
ScriptLoaded ==
  /\ settings = InitialSettings
  /\ compiledRegex = NullRegex
  /\ processedNodes = {}
  /\ pendingMutations = <<>>
  /\ processingTimeout = FALSE
  /\ timers = 0
  /\ observer = "none"
  /\ records = <<>>
  /\ idleCallback = FALSE
  /\ initPc = "get1"
  /\ awaiting = [get1 |-> 0, get2 |-> 0]
  /\ applied = FALSE
  /\ stoppedByNotice = FALSE

\* no writer of the store has started
WritersIdle ==
  /\ notices = <<>>
  /\ optionsPc = "idle"
  /\ installPc = "idle"
  /\ storeWrites = 0

Init ==
  /\ ScriptLoaded
  /\ WritersIdle
  /\ doc = InitialDocument
  /\ store \in InitialStores
  /\ pageMutations = 0
  /\ detached = {}
  /\ call = NoCall

(***************************************************************************)
(* Pieces shared by the engine's steps.                                    *)
(***************************************************************************)
Memory == [doc |-> doc, processed |-> processedNodes, written |-> <<>>]

\* rebuild(): the cache is recreated
Rebuilt == [doc |-> doc, processed |-> {}, written |-> <<>>]

\* clearTimeout of the timer the variable names
clearTimeout(armed) == IF armed > 0 THEN armed - 1 ELSE 0

\* observer.disconnect() on the current observer, if any
disconnect(obs) == IF obs = "none" THEN "none" ELSE "disconnected"

\* the characterData records the writes of a step leave with a connected
\* observer: one for each written node that is in the document
WriteRecords(written, obs) ==
  IF obs = "connected"
    THEN LET observed == SelectSeq(written, InDocument)
         IN [i \in 1..Len(observed) |->
               [type |-> "characterData", target |-> observed[i], added |-> <<>>,
                by |-> "engine"]]
    ELSE <<>>

\* the end of an engine step: st, cr, m, obs, timeout and armed are the
\* values the step leaves; full and disable feed the history variables
EngineStep(st, cr, memory, obs, timeout, armed, full, disable) ==
  \E m \in {memory} :
  /\ settings' = st
  /\ compiledRegex' = cr
  /\ doc' = m.doc
  /\ processedNodes' = m.processed
  /\ observer' = obs
  /\ records' = WriteRecords(m.written, obs)
  /\ processingTimeout' = timeout
  /\ timers' = armed
  /\ applied' = IF full THEN TRUE
                ELSE IF m.doc # doc \/ cr # compiledRegex THEN FALSE
                ELSE applied
  /\ stoppedByNotice' = IF st.enabled THEN FALSE ELSE (stoppedByNotice \/ disable)

\* what follows loadSettings' last await in a change handler: rebuild (in
\* loadSettings and again in the listener), then applyAll when enabled
HandlerAfterLoad(st) ==
  \E cr \in {buildCombinedRegex(st.replacementGroups)} :
    LET m == IF st.enabled THEN applyAll(Rebuilt, st, cr) ELSE Rebuilt
    IN EngineStep(st, cr, m, observer, processingTimeout, timers,
                  st.enabled /\ ~cr.isNull, FALSE)

\* what follows loadSettings' last await in init: rebuild, then
\* startObserving and the idle callback when enabled
InitAfterLoad(st) ==
  /\ \E cr \in {buildCombinedRegex(st.replacementGroups)} :
       EngineStep(st, cr, Rebuilt,
                  IF st.enabled THEN "connected" ELSE observer,
                  processingTimeout, timers, FALSE, FALSE)
  /\ idleCallback' = (idleCallback \/ st.enabled)
  /\ initPc' = "done"

(***************************************************************************)
(* Init: the async function at the end of the script.                      *)
(***************************************************************************)
\* loadSettings' first storage.get resolves
InitLoadNew ==
  /\ initPc = "get1"
  /\ records = <<>>
  /\ IF HasNewFormat(store)
       THEN /\ InitAfterLoad(SettingsFromNew(store))
            /\ UNCHANGED <<pendingMutations, awaiting>>
       ELSE /\ initPc' = "get2"
            /\ UNCHANGED <<doc, settings, compiledRegex, processedNodes,
                           pendingMutations, processingTimeout, timers, observer,
                           records, idleCallback, awaiting, applied, stoppedByNotice>>
  /\ UNCHANGED <<storeVars, outerVars>>

\* loadSettings' second storage.get (the legacy keys) resolves
InitLoadLegacy ==
  /\ initPc = "get2"
  /\ records = <<>>
  /\ InitAfterLoad(SettingsFromLegacy(store))
  /\ UNCHANGED <<pendingMutations, awaiting, storeVars, outerVars>>

\* the idle callback (or its timeout) runs applyAll
IdleCallback ==
  /\ idleCallback
  /\ records = <<>>
  /\ idleCallback' = FALSE
  /\ EngineStep(settings, compiledRegex,
                applyAll(Memory, settings, compiledRegex), observer,
                processingTimeout, timers,
                settings.enabled /\ ~compiledRegex.isNull, FALSE)
  /\ UNCHANGED <<pendingMutations, initPc, awaiting, storeVars, outerVars>>

(***************************************************************************)
(* The MutationObserver callback and the debounced pass.                   *)
(***************************************************************************)
\* the nodes one record queues
RecordNodes(r) ==
  IF r.type = "characterData" /\ r.target \in TextNodes THEN <<r.target>>
  ELSE IF r.type = "childList" /\ Len(r.added) > 0 THEN r.added
  ELSE <<>>

\* the loop over the records, halved like replaceEach
RECURSIVE NodesToQueue(_)
NodesToQueue(mutations) ==
  IF mutations = <<>> THEN <<>>
  ELSE IF Len(mutations) = 1 THEN RecordNodes(mutations[1])
  ELSE NodesToQueue(SubSeq(mutations, 1, Len(mutations) \div 2))
         \o NodesToQueue(SubSeq(mutations, (Len(mutations) \div 2) + 1, Len(mutations)))

\* the text nodes whose cache entry the callback deletes
Invalidated(mutations) ==
  {mutations[i].target : i \in {j \in 1..Len(mutations) :
       mutations[j].type = "characterData" /\ mutations[j].target \in TextNodes}}

\* a callback guard that does not look at the matcher
CallbackActiveNoMatcherCheck(st, cr) == st.enabled

\* the callback's guard: it returns at once unless this holds
CallbackActive(st, cr) == st.enabled /\ ~cr.isNull

ObserverCallback ==
  /\ records # <<>>
  /\ records' = <<>>
  /\ IF ~CallbackActive(settings, compiledRegex)
       THEN UNCHANGED <<processedNodes, pendingMutations, processingTimeout, timers>>
       ELSE /\ processedNodes' = processedNodes \ Invalidated(records)
            /\ IF Len(NodesToQueue(records)) > 0
                 THEN /\ pendingMutations' = Append(pendingMutations, NodesToQueue(records))
                      /\ timers' = (IF processingTimeout THEN clearTimeout(timers)
                                    ELSE timers) + 1
                      /\ processingTimeout' = TRUE
                 ELSE UNCHANGED <<pendingMutations, processingTimeout, timers>>
  /\ UNCHANGED <<doc, settings, compiledRegex, observer, idleCallback, initPc,
                 awaiting, storeVars, outerVars, applied, stoppedByNotice>>

\* the debounce timer fires: processPendingMutations
TimerFires ==
  /\ timers > 0
  /\ records = <<>>
  /\ IF pendingMutations = <<>>
       THEN /\ timers' = timers - 1
            /\ UNCHANGED <<doc, settings, compiledRegex, processedNodes,
                           pendingMutations, processingTimeout, observer, records,
                           applied, stoppedByNotice>>
       ELSE /\ \E nodes \in {nodesToProcess(pendingMutations)} :
                 EngineStep(settings, compiledRegex,
                            replaceEach(Memory, nodes, compiledRegex),
                            observer, FALSE, timers - 1, FALSE, FALSE)
            /\ pendingMutations' = <<>>
  /\ UNCHANGED <<idleCallback, initPc, awaiting, storeVars, outerVars>>

(***************************************************************************)
(* The chrome.storage.onChanged listener.                                  *)
(***************************************************************************)
\* the listener up to its end or, for a change of legacy keys, up to the
\* first await of loadSettings
HandleNotice ==
  /\ notices # <<>>
  /\ records = <<>>
  /\ notices' = Tail(notices)
  /\ LET changes == Head(notices)
         hasEnabled == "enabled" \in changes.keys
         hasGroups == "replacementGroups" \in changes.keys
         hasLegacy == changes.keys \cap LegacyKeys # {}
         stop == hasEnabled /\ ~changes.enabled
         start == hasEnabled /\ changes.enabled
         st1 == IF hasEnabled THEN [settings EXCEPT !.enabled = changes.enabled]
                ELSE settings
         st2 == IF hasGroups
                  THEN [st1 EXCEPT !.replacementGroups = changes.replacementGroups]
                  ELSE st1
         obs == IF stop THEN disconnect(observer)
                ELSE IF start THEN "connected"
                ELSE observer
         timeout == IF stop THEN FALSE ELSE processingTimeout
         armed == IF stop /\ processingTimeout THEN clearTimeout(timers) ELSE timers
         needRebuild == hasGroups
         needReapply == hasEnabled \/ hasGroups
         rebuilt == IF needRebuild THEN buildCombinedRegex(st2.replacementGroups)
                    ELSE compiledRegex
         m0 == IF needRebuild THEN Rebuilt ELSE Memory
     IN IF hasLegacy
          THEN /\ EngineStep(st2, compiledRegex, Memory, obs,
                             timeout, armed, FALSE, stop)
               /\ awaiting' = [awaiting EXCEPT !.get1 = @ + 1]
          ELSE /\ \E cr \in {rebuilt} :
                    EngineStep(st2, cr,
                               IF needReapply /\ st2.enabled
                                 THEN applyAll(m0, st2, cr) ELSE m0,
                               obs, timeout, armed,
                               needReapply /\ st2.enabled /\ ~cr.isNull, stop)
               /\ UNCHANGED awaiting
  /\ UNCHANGED <<pendingMutations, idleCallback, initPc, store, optionsPc,
                 installPc, storeWrites, outerVars>>

\* a suspended listener resumes from loadSettings' first storage.get
HandlerLoadNew ==
  /\ awaiting.get1 > 0
  /\ records = <<>>
  /\ IF HasNewFormat(store)
       THEN /\ HandlerAfterLoad(SettingsFromNew(store))
            /\ awaiting' = [awaiting EXCEPT !.get1 = @ - 1]
       ELSE /\ awaiting' = [get1 |-> awaiting.get1 - 1, get2 |-> awaiting.get2 + 1]
            /\ UNCHANGED <<doc, settings, compiledRegex, processedNodes,
                           processingTimeout, timers, observer, records, applied,
                           stoppedByNotice>>
  /\ UNCHANGED <<pendingMutations, idleCallback, initPc, storeVars, outerVars>>

\* a suspended listener resumes from loadSettings' second storage.get
HandlerLoadLegacy ==
  /\ awaiting.get2 > 0
  /\ records = <<>>
  /\ HandlerAfterLoad(SettingsFromLegacy(store))
  /\ awaiting' = [awaiting EXCEPT !.get2 = @ - 1]
  /\ UNCHANGED <<pendingMutations, idleCallback, initPc, storeVars, outerVars>>

(***************************************************************************)
(* The page: a script of the page, or the user, changes a text node.       *)
(***************************************************************************)
PageSetText ==
  /\ records = <<>>
  /\ pageMutations < MaxPageMutations
  /\ \E n \in PageNodes, text \in Texts :
       /\ text # doc[n]
       /\ doc' = [doc EXCEPT ![n] = text]
       /\ records' = IF observer = "connected"
                       THEN << [type |-> "characterData", target |-> n,
                                added |-> <<>>, by |-> "page"] >>
                       ELSE <<>>
  /\ pageMutations' = pageMutations + 1
  /\ applied' = FALSE
  /\ UNCHANGED <<settings, compiledRegex, processedNodes, pendingMutations,
                 processingTimeout, timers, observer, idleCallback, initPc,
                 awaiting, storeVars, stoppedByNotice, detached, call>>

(***************************************************************************)
(* The writers of the store.                                               *)
(***************************************************************************)
StoreStep(new) ==
  /\ store' = new
  /\ notices' = Notify(notices, store, new)
  /\ UNCHANGED <<engineVars, outerVars, historyVars>>

\* popup.js: the enabled checkbox changes
PopupToggle ==
  /\ records = <<>>
  /\ storeWrites < MaxStoreWrites
  /\ storeWrites' = storeWrites + 1
  /\ \E checked \in BOOLEAN :
       /\ ChangedKeys(store, storageSet(store, Items({"enabled"}, checked, <<>>))) # {}
       /\ StoreStep(storageSet(store, Items({"enabled"}, checked, <<>>)))
  /\ UNCHANGED <<optionsPc, installPc>>

\* options.js save: storage.set of enabled and replacementGroups
OptionsSaveSet ==
  /\ records = <<>>
  /\ optionsPc = "idle"
  /\ storeWrites < MaxStoreWrites
  /\ storeWrites' = storeWrites + 1
  /\ optionsPc' = "remove"
  /\ \E enabled \in BOOLEAN, groups \in SavedGroupLists :
       StoreStep(storageSet(store, Items({"enabled", "replacementGroups"},
                                         enabled, groups)))
  /\ UNCHANGED installPc

\* options.js save: storage.remove of the legacy keys
OptionsSaveRemove ==
  /\ records = <<>>
  /\ optionsPc = "remove"
  /\ optionsPc' = "idle"
  /\ StoreStep(storageRemove(store, LegacyKeys))
  /\ UNCHANGED <<storeWrites, installPc>>

\* service_worker.js onInstalled: storage.get(null) resolves and the handler
\* looks for the enabled key
InstallRead ==
  /\ records = <<>>
  /\ installPc = "idle"
  /\ storeWrites < MaxStoreWrites
  /\ storeWrites' = storeWrites + 1
  /\ installPc' = IF "enabled" \notin store.keys THEN "write" ELSE "idle"
  /\ UNCHANGED <<engineVars, outerVars, historyVars, store, notices, optionsPc>>

\* service_worker.js onInstalled: storage.set of the defaults
InstallWrite ==
  /\ records = <<>>
  /\ installPc = "write"
  /\ installPc' = "idle"
  /\ StoreStep(storageSet(store, DEFAULT_SETTINGS))
  /\ UNCHANGED <<storeWrites, optionsPc>>

Next ==
  \/ InitLoadNew
  \/ InitLoadLegacy
  \/ IdleCallback
  \/ ObserverCallback
  \/ TimerFires
  \/ HandleNotice
  \/ HandlerLoadNew
  \/ HandlerLoadLegacy
  \/ PageSetText
  \/ PopupToggle
  \/ OptionsSaveSet
  \/ OptionsSaveRemove
  \/ InstallRead
  \/ InstallWrite

Spec == Init /\ [][Next]_vars

(***************************************************************************)
(* The same machine with the scheduling the browser guarantees: a resolved *)
(* storage read, a queued microtask, an armed timer, an idle callback and  *)
(* a delivered event each run eventually.  The page and the writers of the *)
(* store are free to stop.                                                 *)
(***************************************************************************)
FairSpec ==
  /\ Spec
  /\ WF_vars(InitLoadNew)
  /\ WF_vars(InitLoadLegacy)
  /\ WF_vars(IdleCallback)
  /\ WF_vars(ObserverCallback)
  /\ WF_vars(TimerFires)
  /\ WF_vars(HandleNotice)
  /\ WF_vars(HandlerLoadNew)
  /\ WF_vars(HandlerLoadLegacy)

(***************************************************************************)
(* Dynamic content.  The page builds the div outside the document and      *)
(* appends it; appending a node that is already in place moves it, which   *)
(* the observer sees as a removal followed by an addition.  The store is   *)
(* left alone, so an engine that observes keeps observing.                 *)
(***************************************************************************)
MaxAppends == 3

\* the nodes the page appends: the div with its text, and the text alone
AppendNodes == {"div", "t1"}

\* the childList records of parent.appendChild(n)
AppendRecords(n) ==
  LET record(added) == [type |-> "childList", target |-> TreeParent(n),
                        added |-> added, by |-> "page"]
  IN IF observer # "connected" \/ ~InDocument(TreeParent(n)) THEN <<>>
     ELSE IF n \in detached THEN << record(<<n>>) >>
     ELSE << record(<<>>), record(<<n>>) >>

PageAppend ==
  /\ records = <<>>
  /\ pageMutations < MaxAppends
  /\ \E n \in AppendNodes :
       /\ detached' = detached \ {n}
       /\ records' = AppendRecords(n)
  /\ pageMutations' = pageMutations + 1
  /\ applied' = FALSE
  /\ UNCHANGED <<doc, settings, compiledRegex, processedNodes, pendingMutations,
                 processingTimeout, timers, observer, idleCallback, initPc,
                 awaiting, storeVars, stoppedByNotice, call>>

\* the childList record of n.remove(): no node is added
RemoveRecords(n) ==
  IF observer # "connected" \/ ~InDocument(TreeParent(n)) THEN <<>>
  ELSE << [type |-> "childList", target |-> TreeParent(n), added |-> <<>>,
           by |-> "page"] >>

\* the page takes the div out of the document
PageRemove ==
  /\ records = <<>>
  /\ pageMutations < MaxAppends
  /\ "div" \notin detached
  /\ detached' = detached \cup {"div"}
  /\ records' = RemoveRecords("div")
  /\ pageMutations' = pageMutations + 1
  /\ applied' = FALSE
  /\ UNCHANGED <<doc, settings, compiledRegex, processedNodes, pendingMutations,
                 processingTimeout, timers, observer, idleCallback, initPc,
                 awaiting, storeVars, stoppedByNotice, call>>

AppendInit ==
  /\ ScriptLoaded
  /\ WritersIdle
  /\ doc \in {[InitialDocument EXCEPT !["t1"] = text] : text \in Texts}
  /\ store \in InitialStores
  /\ pageMutations = 0
  /\ detached = {"div"}
  /\ call = NoCall

AppendNext ==
  \/ InitLoadNew
  \/ InitLoadLegacy
  \/ IdleCallback
  \/ ObserverCallback
  \/ TimerFires
  \/ PageAppend

AppendSpec == AppendInit /\ [][AppendNext]_vars

FairAppendSpec ==
  /\ AppendSpec
  /\ WF_vars(InitLoadNew)
  /\ WF_vars(InitLoadLegacy)
  /\ WF_vars(IdleCallback)
  /\ WF_vars(ObserverCallback)
  /\ WF_vars(TimerFires)

(***************************************************************************)
(* Loading and applying a stored configuration.  The store holds any of a  *)
(* range of configurations and nobody writes it; the page is static.  The  *)
(* script loads the settings, compiles them and applies them.              *)
(***************************************************************************)
Dot == <<"d", "o", "t">>

Cat == <<"c", "a", "t">>

\* legacy stores: each of enabled, replacement and the two flags is absent
\* or present with any value, the replacement possibly empty
LegacyStores ==
  {[keys |-> ks \cup {"words"},
    enabled |-> "enabled" \in ks /\ e,
    replacementGroups |-> <<>>,
    replacement |-> IF "replacement" \in ks THEN x ELSE <<>>,
    words |-> w,
    matchWholeWords |-> "matchWholeWords" \in ks /\ mw,
    caseInsensitive |-> "caseInsensitive" \in ks /\ ci] :
     ks \in SUBSET {"enabled", "replacement", "matchWholeWords", "caseInsensitive"},
     e \in BOOLEAN, x \in {<<>>, Dot}, w \in {<<>>, <<Cat>>},
     mw \in BOOLEAN, ci \in BOOLEAN}

\* group lists as they come from elsewhere than the options page: either
\* flag may be missing
PartialGroups ==
  {<< [k \in {"replacement", "words"} \cup flags |->
         CASE k = "replacement" -> Dot
           [] k = "words" -> <<Cat>>
           [] OTHER -> value] >> :
     flags \in SUBSET {"matchWholeWords", "caseInsensitive"}, value \in BOOLEAN}

Rat == <<"r", "a", "t">>

\* two groups that both list "cat", with different replacements
OverlapGroups ==
  {<< Group(to[1], <<Cat>>, whole, TRUE), Group(to[2], <<Cat>>, whole, TRUE) >> :
     to \in {<<Dot, Rat>>, <<Rat, Dot>>}, whole \in BOOLEAN}

\* more words than the cap allows: two whole-word groups of BigGroupSize
\* distinct four-letter words each
BigGroupSize == 300

WordOf(i) ==
  LET letter(d) == <<"a", "b", "c", "d", "e">>[(d % 5) + 1]
  IN << letter(i \div 125), letter(i \div 25), letter(i \div 5), letter(i) >>

BigGroups ==
  << Group(Dot, [k \in 1..BigGroupSize |-> WordOf(k)], TRUE, TRUE),
     Group(Rat, [k \in 1..BigGroupSize |-> WordOf(BigGroupSize + k)], TRUE, TRUE) >>

\* the last word within the cap and the first one beyond it
CapText == WordOf(MaxPatterns) \o <<" ">> \o WordOf(MaxPatterns + 1)

ListStores ==
  {Items({"enabled", "replacementGroups"}, TRUE, groups) :
     groups \in PartialGroups \cup OverlapGroups \cup {BigGroups}}

LoadStores == LegacyStores \cup ListStores

LoadTexts ==
  { <<"c", "o", "n", "c", "a", "t", "e", "n", "a", "t", "e">>,
    <<"t", "h", "e", " ", "c", "a", "t", " ", "s", "a", "t">>,
    <<"c", "o", "n", "c", "a", "t", " ", "c", "a", "t">> }

LoadInit ==
  /\ ScriptLoaded
  /\ WritersIdle
  /\ doc \in {[InitialDocument EXCEPT !["t1"] = text] : text \in LoadTexts \cup {CapText}}
  /\ store \in LoadStores
  /\ pageMutations = 0
  /\ detached = {}
  /\ call = NoCall

LoadNext ==
  \/ InitLoadNew
  \/ InitLoadLegacy
  \/ IdleCallback
  \/ ObserverCallback
  \/ TimerFires

LoadSpec == LoadInit /\ [][LoadNext]_vars

(***************************************************************************)
(* Configurations that yield no matcher.  The store starts with no group,  *)
(* with groups that list no usable word, with a group that cannot be       *)
(* compiled, or with the swap groups; the options page saves any of these  *)
(* lists while the page appends content.                                   *)
(***************************************************************************)
\* lists buildCombinedRegex returns null for: no group, an empty word list,
\* words that trim to nothing, a word that is not a string
NoMatcherLists ==
  { <<>>,
    << Group(Dot, <<>>, FALSE, TRUE) >>,
    << Group(Dot, << <<" ">>, <<>> >>, FALSE, TRUE), Group(Rat, <<>>, FALSE, TRUE) >>,
    << Group(Dot, << Cat, <<NotAString>> >>, FALSE, TRUE) >> }

NoMatcherStores ==
  {EmptyStore} \cup
  {Items({"enabled", "replacementGroups"}, TRUE, groups) :
     groups \in NoMatcherLists \cup {SwapGroups}}

\* the lists the options page saves: none, one that cannot be compiled,
\* and one that yields a matcher
SavedLists ==
  { <<>>, << Group(Dot, << Cat, <<NotAString>> >>, FALSE, TRUE) >>, SwapGroups }

\* options.js save: storage.set of enabled and of one of these lists
OptionsSaveAnyList ==
  /\ records = <<>>
  /\ optionsPc = "idle"
  /\ storeWrites < MaxStoreWrites
  /\ storeWrites' = storeWrites + 1
  /\ optionsPc' = "remove"
  /\ \E groups \in SavedLists :
       StoreStep(storageSet(store, Items({"enabled", "replacementGroups"},
                                         TRUE, groups)))
  /\ UNCHANGED installPc

NoMatcherInit ==
  /\ ScriptLoaded
  /\ WritersIdle
  /\ doc = InitialDocument
  /\ store \in NoMatcherStores
  /\ pageMutations = 0
  /\ detached = {"div"}
  /\ call = NoCall

NoMatcherNext ==
  \/ InitLoadNew
  \/ InitLoadLegacy
  \/ IdleCallback
  \/ ObserverCallback
  \/ TimerFires
  \/ HandleNotice
  \/ PageAppend
  \/ OptionsSaveAnyList
  \/ OptionsSaveRemove

NoMatcherSpec == NoMatcherInit /\ [][NoMatcherNext]_vars

(***************************************************************************)
(* A replacement that is not a string.  The store holds a group whose      *)
(* replacement is a number next to a well-formed group; the two text nodes *)
(* of the div hold any of a few texts, and the div is in the document or   *)
(* is appended later.                                                      *)
(***************************************************************************)
\* "cat" is replaced by a number, "rat" by "dot"
ThrowGroups ==
  << Group(<<NotAString>>, <<Cat>>, FALSE, TRUE), Group(Dot, <<Rat>>, FALSE, TRUE) >>

ThrowStores == {EmptyStore, Items({"enabled", "replacementGroups"}, TRUE, ThrowGroups)}

\* "cat" makes preserveCase throw, "cAt" does not (the number is returned as
\* it is), "cat rat" holds a match of either group, "foo" none
ThrowTexts ==
  { Cat, <<"c", "A", "t">>, Rat, Cat \o <<" ">> \o Rat, <<"f", "o", "o">> }

ThrowInit ==
  /\ ScriptLoaded
  /\ WritersIdle
  /\ doc \in {[InitialDocument EXCEPT !["t1"] = first, !["t6"] = second] :
                first \in ThrowTexts, second \in ThrowTexts}
  /\ store \in ThrowStores
  /\ pageMutations = 0
  /\ detached \in {{}, {"div"}}
  /\ call = NoCall

ThrowNext ==
  \/ InitLoadNew
  \/ InitLoadLegacy
  \/ IdleCallback
  \/ ObserverCallback
  \/ TimerFires
  \/ PageAppend

ThrowSpec == ThrowInit /\ [][ThrowNext]_vars

(***************************************************************************)
(* Content that comes and goes.  The page appends the div, takes it out    *)
(* and appends it again; the store holds groups whose replacement is       *)
(* another group's word.                                                   *)
(***************************************************************************)
CatToDot == << Group(Dot, <<Cat>>, FALSE, TRUE) >>

Act == <<"a", "c", "t">>

\* "cat" is replaced by "act" and "act" by "dot"
ChainGroups ==
  << Group(Act, <<Cat>>, FALSE, TRUE), Group(Dot, <<Act>>, FALSE, TRUE) >>

\* a text with two matches of one group around a match of the other
CatActCat == Cat \o <<" ">> \o Act \o <<" ">> \o Cat

RemoveStores ==
  {EmptyStore} \cup
  {Items({"enabled", "replacementGroups"}, TRUE, groups) :
     groups \in {ChainGroups, SwapGroups, CatToDot}}

RemoveInit ==
  /\ ScriptLoaded
  /\ WritersIdle
  /\ doc \in {[InitialDocument EXCEPT !["t1"] = text] : text \in Texts \cup {CatActCat}}
  /\ store \in RemoveStores
  /\ pageMutations = 0
  /\ detached = {"div"}
  /\ call = NoCall

RemoveNext ==
  \/ InitLoadNew
  \/ InitLoadLegacy
  \/ IdleCallback
  \/ ObserverCallback
  \/ TimerFires
  \/ PageAppend
  \/ PageRemove

RemoveSpec == RemoveInit /\ [][RemoveNext]_vars

(***************************************************************************)
(* A long page.  The list holds ItemCount text nodes that all read "cat",  *)
(* and the store replaces "cat" by "dot"; while the script loads and       *)
(* applies, the page changes a text and the popup toggles the flag.        *)
(***************************************************************************)
LongDocument ==
  [n \in Range(ShortOrder) \cup ItemNodes |->
     IF n \in ItemNodes THEN Cat ELSE InitialDocument[n]]

LongStores ==
  {storageSet(EmptyStore, DEFAULT_SETTINGS),
   Items({"enabled", "replacementGroups"}, TRUE, CatToDot)}

LongInit ==
  /\ ScriptLoaded
  /\ WritersIdle
  /\ doc = LongDocument
  /\ store \in LongStores
  /\ pageMutations = 0
  /\ detached = {}
  /\ call = NoCall

LongNext ==
  \/ InitLoadNew
  \/ InitLoadLegacy
  \/ IdleCallback
  \/ ObserverCallback
  \/ TimerFires
  \/ HandleNotice
  \/ PageSetText
  \/ PopupToggle

LongSpec == LongInit /\ [][LongNext]_vars

(***************************************************************************)
(* preserveCase on its own: a call with any matched text and any           *)
(* replacement over an upper-case letter, a lower-case letter and a        *)
(* non-letter.                                                             *)
(***************************************************************************)
MaxFromLen == 4

MaxToLen == 3

CaseAlphabet == {"A", "a", "1"}

StringsUpTo(n) == UNION {[1..k -> CaseAlphabet] : k \in 0..n}

CaseInit ==
  /\ ScriptLoaded
  /\ WritersIdle
  /\ doc = InitialDocument
  /\ store = EmptyStore
  /\ pageMutations = 0
  /\ detached = {}
  /\ call \in {[from |-> m, to |-> r, returned |-> FALSE, result |-> <<>>] :
                 m \in StringsUpTo(MaxFromLen), r \in StringsUpTo(MaxToLen)}

PreserveCaseReturns ==
  /\ ~call.returned
  /\ call' = [call EXCEPT !.returned = TRUE, !.result = preserveCase(call.from, call.to)]
  /\ UNCHANGED <<engineVars, storeVars, historyVars, pageMutations, detached>>

CaseNext == PreserveCaseReturns

CaseSpec == CaseInit /\ [][CaseNext]_vars

(***************************************************************************)
(* Vocabulary of the properties.                                           *)
(***************************************************************************)
\* this step is the engine's and changes the text of n
EngineWrote(n) == doc'[n] # doc[n] /\ pageMutations' = pageMutations

\* n lies, at any depth, inside an editing host or an excluded element
HasExcludedAncestor(n) ==
  \E a \in Ancestors(n) : a \in EditableHosts \/ nodeName(a) \in ExcludedTags

\* the occurrences text.replace visits: <<position, alternative>>
RECURSIVE HitsFrom(_, _, _)
HitsFrom(text, i, cr) ==
  IF i > Len(text) THEN {}
  ELSE IF AltAt(text, i, cr) = 0 THEN HitsFrom(text, i + 1, cr)
  ELSE {<<i, AltAt(text, i, cr)>>}
         \cup HitsFrom(text, i + Len(cr.regex[AltAt(text, i, cr)].word), cr)

Occurrence(text, h, cr) == SubSeq(text, h[1], h[1] + Len(cr.regex[h[2]].word) - 1)

\* the occurrence h of text is replaced by something else
IsReplaced(text, h, cr) ==
  Callback(Occurrence(text, h, cr), Occurrence(text, h, cr), h[2], cr)
    # Occurrence(text, h, cr)

(***************************************************************************)
(* C1.  A case-sensitive group replaces only exact-case occurrences: in    *)
(* every text node the engine rewrites, each occurrence it replaces for a  *)
(* mapping with caseInsensitive = FALSE spells the configured word letter  *)
(* for letter.                                                             *)
(***************************************************************************)
C1_ExactCaseOnly ==
  [][\A n \in TextNodes :
       EngineWrote(n) =>
         \A h \in HitsFrom(doc[n], 1, compiledRegex') :
           (/\ ~compiledRegex'.mappings[h[2]].caseInsensitive
            /\ IsReplaced(doc[n], h, compiledRegex'))
             => Occurrence(doc[n], h, compiledRegex') = compiledRegex'.regex[h[2]].word]_vars

(***************************************************************************)
(* C2.  The notification caused by the engine's own write does not queue   *)
(* the node again: a batch made only of records of the engine's writes     *)
(* leaves the pending queue as it was.                                     *)
(***************************************************************************)
C2_OwnWriteNotQueued ==
  [][(records # <<>> /\ \A i \in 1..Len(records) : records[i].by = "engine")
       => pendingMutations' = pendingMutations]_vars

(***************************************************************************)
(* C3.  No unbounded rewrite -> notification -> rewrite loop: in every     *)
(* fair run the texts change only finitely often.                          *)
(***************************************************************************)
C3_FinitelyManyWrites == <>[][doc' = doc]_vars

(***************************************************************************)
(* C4.  A second full pass over an unchanged document with the unchanged   *)
(* matcher leaves every text node as the first pass left it.               *)
(***************************************************************************)
C4_SecondPassChangesNothing ==
  [][(applied /\ applied' /\ compiledRegex' = compiledRegex
        /\ pageMutations' = pageMutations)
       => doc' = doc]_vars

(***************************************************************************)
(* C5.  After a stop the observer is disconnected, no debounce timer is    *)
(* pending and the pending queue is empty.                                 *)
(***************************************************************************)
C5_StopLeavesNothingQueued ==
  observer = "disconnected"
    => ~processingTimeout /\ timers = 0 /\ pendingMutations = <<>>

(***************************************************************************)
(* C6.  As claimed: whenever the observer is connected, enabled is true    *)
(* and a compiled matcher exists.                                          *)
(***************************************************************************)
C6_ObservingImpliesMatcher ==
  observer = "connected" => settings.enabled /\ ~compiledRegex.isNull

(***************************************************************************)
(* C6, amended.  The coordinator starts without an observer; the observer  *)
(* may be connected with no matcher, but a notification batch is queued    *)
(* and the debounce timer armed only by a connected observer's callback    *)
(* that finds enabled true and a compiled matcher.                         *)
(***************************************************************************)
C6_QueuesOnlyWithMatcher ==
  /\ observer = "none"
  /\ [][(pendingMutations' # pendingMutations /\ pendingMutations' # <<>>)
          => (/\ observer = "connected"
              /\ settings.enabled
              /\ ~compiledRegex.isNull
              /\ timers' > 0)]_vars

\* the callback has queued a batch the page caused and armed the timer
C6_Witness ==
  /\ pendingMutations # <<>>
  /\ timers > 0
  /\ observer = "connected"
  /\ pageMutations > 0

(***************************************************************************)
(* C7.  Once a change with enabled=false has been handled, and for as long *)
(* as enabled stays false, the observer is not connected, no debounce      *)
(* timer is armed and no step of the engine changes a text node, whatever  *)
(* timers, idle callbacks and notifications are still to run; texts        *)
(* replaced before keep their value.                                       *)
(***************************************************************************)
C7_StoppedWritesNothing ==
  [][stoppedByNotice'
       => (/\ observer' # "connected"
           /\ ~processingTimeout'
           /\ timers' = 0
           /\ pageMutations' = pageMutations => doc' = doc)]_vars

\* the stop has been handled, after the engine made a replacement and with
\* the idle callback and a queued batch still to come
C7_Witness ==
  /\ stoppedByNotice
  /\ observer = "disconnected"
  /\ idleCallback
  /\ pendingMutations # <<>>
  /\ pageMutations = 0
  /\ doc # InitialDocument

(***************************************************************************)
(* C8.  The handlers of two change notifications never interleave: while   *)
(* one handler is suspended in loadSettings, no other notification is      *)
(* handled.                                                                *)
(***************************************************************************)
C8_HandlersDoNotInterleave ==
  [][(awaiting.get1 + awaiting.get2 > 0)
       => ~(notices # <<>> /\ notices' = Tail(notices))]_vars

(***************************************************************************)
(* C9.  Until init's load of the settings has resolved, the engine has     *)
(* compiled no matcher, connected no observer and written no text node.    *)
(***************************************************************************)
C9_NothingBeforeLoad ==
  [][initPc' # "done"
       => (/\ compiledRegex'.isNull
           /\ observer' = "none"
           /\ pageMutations' = pageMutations => doc' = doc)]_vars

(***************************************************************************)
(* C10.  The engine never writes a text node that has, at any depth, an    *)
(* ancestor that is contenteditable or one of the excluded elements.       *)
(***************************************************************************)
C10_NoWriteUnderExcluded ==
  [][\A n \in TextNodes : EngineWrote(n) => ~HasExcludedAncestor(n)]_vars

(***************************************************************************)
(* C11.  While the engine observes with a matcher, the matching text of an *)
(* eligible element appended to the document is eventually replaced, and   *)
(* a debounced pass scans, and writes, only text nodes that were queued    *)
(* themselves or lie under a queued node, never the rest of the document.  *)
(***************************************************************************)
QueuedSubtreeTexts ==
  {n \in TextNodes : \E b \in 1..Len(pendingMutations) :
                       \E q \in Range(pendingMutations[b]) : q = n \/ q \in Ancestors(n)}

\* the observer is about to be told that the div, holding text, was appended
AppendedMatch(text) ==
  /\ observer = "connected"
  /\ CallbackActive(settings, compiledRegex)
  /\ \E i \in 1..Len(records) :
       records[i].type = "childList" /\ records[i].added = <<"div">>
  /\ ~shouldSkipNode("div")
  /\ doc["t1"] = text
  /\ RegexTest(text, compiledRegex)

NoRepeats(nodes) ==
  \A i, j \in 1..Len(nodes) : nodes[i] = nodes[j] => i = j

C12_OneTimerOnePassOneScan ==
  /\ [](timers <= 1)
  /\ [](NoRepeats(nodesToProcess(pendingMutations)))
  /\ [][Len(pendingMutations') > Len(pendingMutations) /\ timers > 0
         => /\ timers' = timers
            /\ SubSeq(pendingMutations', 1, Len(pendingMutations)) = pendingMutations]_vars
  /\ [][timers' < timers /\ pendingMutations # <<>>
         => /\ pendingMutations' = <<>>
            /\ timers' = 0
            /\ ~processingTimeout'
            /\ \A n \in TextNodes :
                 doc'[n] # doc[n] => n \in Range(nodesToProcess(pendingMutations))]_vars

\* two batches wait for the one timer; the div and its text node are both
\* queued, and the pass will scan each text node of the div once
C12_Witness ==
  /\ Len(pendingMutations) >= 2
  /\ timers = 1
  /\ \E a, b \in 1..Len(pendingMutations) :
       "div" \in Range(pendingMutations[a]) /\ "t1" \in Range(pendingMutations[b])
  /\ nodesToProcess(pendingMutations) = <<"t1", "t6">>

(***************************************************************************)
(* C13.  A store without replacementGroups whose legacy keys hold a        *)
(* replacement X and a non-empty word list W loads as exactly one group    *)
(* {replacement: X, words: W, matchWholeWords, caseInsensitive}, each flag *)
(* the legacy value, or true when its key is absent.                       *)
(***************************************************************************)
\* init's load completes from the legacy keys, words being non-empty
LegacyLoaded ==
  /\ initPc = "get2" /\ initPc' = "done"
  /\ ~HasNewFormat(store)
  /\ "words" \in store.keys /\ store.words # <<>>

LegacyFlag(k, value) == IF k \in store.keys THEN value ELSE TRUE

\* as stated: the group carries X itself
C13_LegacyLoadsAsOneGroup ==
  [][LegacyLoaded /\ "replacement" \in store.keys
       => settings'.replacementGroups =
            << [replacement |-> store.replacement,
                words |-> store.words,
                matchWholeWords |-> LegacyFlag("matchWholeWords", store.matchWholeWords),
                caseInsensitive |-> LegacyFlag("caseInsensitive", store.caseInsensitive)] >>
     ]_vars

\* C13, amended: the group carries X, or the fallback "Cocaine" when X is
\* empty or its key is absent
C13_LegacyLoadsAsOneGroupWithFallback ==
  [][LegacyLoaded
       => settings'.replacementGroups =
            << [replacement |-> IF "replacement" \in store.keys /\ store.replacement # <<>>
                                  THEN store.replacement ELSE FallbackReplacement,
                words |-> store.words,
                matchWholeWords |-> LegacyFlag("matchWholeWords", store.matchWholeWords),
                caseInsensitive |-> LegacyFlag("caseInsensitive", store.caseInsensitive)] >>
     ]_vars

\* loaded from {replacement: "dot", words: ["cat"], caseInsensitive: false}
C13_Witness ==
  /\ initPc = "done"
  /\ store.keys = {"replacement", "words", "caseInsensitive"}
  /\ store.replacement = Dot /\ store.words = <<Cat>> /\ ~store.caseInsensitive
  /\ settings = [enabled |-> TRUE,
                 replacementGroups |-> << Group(Dot, <<Cat>>, TRUE, FALSE) >>]

StoredGroups(s) ==
  IF HasNewFormat(s) THEN s.replacementGroups
  ELSE IF "words" \in s.keys /\ s.words # <<>>
    THEN << [k \in {"replacement", "words"} \cup
                   (s.keys \cap {"matchWholeWords", "caseInsensitive"}) |->
               CASE k = "replacement" -> s.replacement
                 [] k = "words" -> s.words
                 [] k = "matchWholeWords" -> s.matchWholeWords
                 [] OTHER -> s.caseInsensitive] >>
  ELSE <<>>

WithDefaults(groups) ==
  [i \in 1..Len(groups) |->
     Group(groups[i].replacement, groups[i].words,
           IF "matchWholeWords" \in DOMAIN groups[i]
             THEN groups[i].matchWholeWords ELSE TRUE,
           IF "caseInsensitive" \in DOMAIN groups[i]
             THEN groups[i].caseInsensitive ELSE TRUE)]

C15_MissingFlagsDefaultTrue ==
  [][idleCallback /\ ~idleCallback' /\ settings.enabled
       => doc'["t1"] = RegexReplace(doc["t1"],
                         buildCombinedRegex(WithDefaults(StoredGroups(store))))]_vars

(***************************************************************************)
(* C16.  preserveCase(m, r) is the result of the first applicable rule:    *)
(* r unchanged if m has at most 2 characters; r upper-cased if m is all    *)
(* uppercase with at least one letter; r with its first character          *)
(* upper-cased and the rest lower-cased if m is title-case (first          *)
(* character an upper-case letter, remainder lower); r lower-cased if m    *)
(* is all lowercase; otherwise r unchanged.                                *)
(***************************************************************************)
IsLowerLetter(c) == IndexIn(c, LowerLetters) # 0

NoUpperIn(m) == \A i \in 1..Len(m) : ~IsUpperLetter(m[i])

NoLowerIn(m) == \A i \in 1..Len(m) : ~IsLowerLetter(m[i])

Capitalized(r) ==
  IF r = <<>> THEN <<>> ELSE <<toUpperChar(r[1])>> \o toLowerCase(slice(r, 2))

FirstApplicableRule(m, r) ==
  IF Len(m) <= 2 THEN r
  ELSE IF NoLowerIn(m) /\ ~NoUpperIn(m) THEN toUpperCase(r)
  ELSE IF IsUpperLetter(m[1]) /\ NoUpperIn(slice(m, 2)) THEN Capitalized(r)
  ELSE IF NoUpperIn(m) THEN toLowerCase(r)
  ELSE r

C16_FirstApplicableRule ==
  call.returned => call.result = FirstApplicableRule(call.from, call.to)

(***************************************************************************)
(* C17.  With matchWholeWords = true an occurrence of the configured word  *)
(* is replaced only where neither neighbour is a word character: "cat" in  *)
(* "concatenate" stays and only the stand-alone "cat" of "the cat sat" is  *)
(* replaced.  With matchWholeWords = false the embedded occurrence is      *)
(* replaced too.                                                           *)
(***************************************************************************)
\* word occurs in text at i, letters compared ignoring case
OccursAt(text, i, word) ==
  /\ i + Len(word) - 1 <= Len(text)
  /\ \A k \in 1..Len(word) : toLowerChar(text[i + k - 1]) = toLowerChar(word[k])

\* the occurrence at i is not part of a longer word
StandsAlone(text, i, word) ==
  /\ i = 1 \/ ~IsWordChar(text[i - 1])
  /\ i + Len(word) > Len(text) \/ ~IsWordChar(text[i + Len(word)])

\* text with the occurrences of word, the stand-alone ones only when whole,
\* replaced from left to right
RECURSIVE WordReplaced(_, _, _, _, _)
WordReplaced(text, i, word, to, whole) ==
  IF i > Len(text) THEN <<>>
  ELSE IF OccursAt(text, i, word) /\ (whole => StandsAlone(text, i, word))
    THEN preserveCase(SubSeq(text, i, i + Len(word) - 1), to)
           \o WordReplaced(text, i + Len(word), word, to, whole)
  ELSE <<text[i]>> \o WordReplaced(text, i + 1, word, to, whole)

\* the loaded configuration is one group of one word with the flag given
OneWordGroup ==
  /\ Len(settings.replacementGroups) = 1
  /\ Len(settings.replacementGroups[1].words) = 1
  /\ "matchWholeWords" \in DOMAIN settings.replacementGroups[1]

C17_WholeWordsOnlyStandAlone ==
  [][idleCallback /\ ~idleCallback' /\ settings.enabled /\ OneWordGroup
       => LET group == settings.replacementGroups[1]
          IN doc'["t1"] =
               WordReplaced(doc["t1"], 1, group.words[1],
                            IF group.replacement = <<>> THEN FallbackReplacement
                            ELSE group.replacement,
                            group.matchWholeWords)]_vars

\* whole words: the full pass has turned "concat cat" into "concat dot"
C17_Witness ==
  /\ OneWordGroup
  /\ settings.replacementGroups[1].matchWholeWords
  /\ settings.replacementGroups[1].words = <<Cat>>
  /\ initPc = "done" /\ ~idleCallback /\ applied
  /\ doc["t1"] = <<"c", "o", "n", "c", "a", "t", " ", "d", "o", "t">>

(***************************************************************************)
(* C18.  When two groups list the same word, so that their patterns match  *)
(* the same span of a text node, the text ends up carrying the replacement *)
(* of one of them, decided by the order of the group list.                 *)
(***************************************************************************)
\* the loaded configuration is two groups listing the same single word
SameWordGroups ==
  /\ Len(settings.replacementGroups) = 2
  /\ \A g \in 1..2 : {"matchWholeWords", "caseInsensitive"}
                         \subseteq DOMAIN settings.replacementGroups[g]
  /\ Len(settings.replacementGroups[1].words) = 1
  /\ settings.replacementGroups[2].words = settings.replacementGroups[1].words
  /\ settings.replacementGroups[2].matchWholeWords
       = settings.replacementGroups[1].matchWholeWords

\* the full pass leaves the text with the word replaced as group g says
FullPassAppliesGroup(g) ==
  idleCallback /\ ~idleCallback' /\ settings.enabled /\ SameWordGroups
    => doc'["t1"] = WordReplaced(doc["t1"], 1, settings.replacementGroups[g].words[1],
                                 settings.replacementGroups[g].replacement,
                                 settings.replacementGroups[g].matchWholeWords)

\* as stated: the group that comes later in the list wins
C18_LaterGroupWins == [][FullPassAppliesGroup(2)]_vars

\* C18, amended: the group that comes earlier in the list wins; the later
\* group's replacement is never applied to that span
C18_EarlierGroupWins == [][FullPassAppliesGroup(1)]_vars

\* groups "cat" -> "dot" then "cat" -> "rat": "the cat sat" reads
\* "the dot sat" after the full pass
C18_Witness ==
  /\ SameWordGroups
  /\ settings.replacementGroups[1].replacement = Dot
  /\ settings.replacementGroups[2].replacement = Rat
  /\ initPc = "done" /\ ~idleCallback /\ applied
  /\ doc["t1"] = <<"t", "h", "e", " ", "d", "o", "t", " ", "s", "a", "t">>

(***************************************************************************)
(* C19.  After a change of the stored replacementGroups with enabled true, *)
(* an engine instance ends up with the matcher compiled from the new       *)
(* groups: whenever no notification is outstanding (none on its way, no    *)
(* handler and no load suspended, no writer of the store in the middle of  *)
(* its writes), the in-memory Configuration is the one the store holds     *)
(* and the matcher is compiled from its groups.                            *)
(***************************************************************************)
\* the Configuration loadSettings builds from store s
Loaded(s) == IF HasNewFormat(s) THEN SettingsFromNew(s) ELSE SettingsFromLegacy(s)

NothingOutstanding ==
  /\ notices = <<>>
  /\ awaiting = [get1 |-> 0, get2 |-> 0]
  /\ initPc = "done"
  /\ records = <<>>
  /\ optionsPc = "idle"
  /\ installPc = "idle"

C19_InstanceMatchesStore ==
  NothingOutstanding /\ "enabled" \in store.keys /\ store.enabled
    => /\ settings = Loaded(store)
       /\ compiledRegex = buildCombinedRegex(Loaded(store).replacementGroups)

(***************************************************************************)
(* C20.  The compiled matcher never holds more than 500 word patterns.     *)
(* When the groups supply more, the first 500 words in group order are     *)
(* kept; patterns and mappings have the same length and mapping i belongs  *)
(* to pattern i; and the matcher still works: a word within the cap is     *)
(* replaced, a word beyond it is not.                                      *)
(***************************************************************************)
\* the number of words in the groups before group g
RECURSIVE WordsBefore(_, _)
WordsBefore(groups, g) ==
  IF g <= 1 THEN 0
  ELSE WordsBefore(groups, g - 1) + Len(TrimmedWords(groups[g - 1].words))

\* cr is what groups compile to under the cap
CompiledUnderCap(groups, cr) ==
  LET total == WordsBefore(groups, Len(groups) + 1)
  IN /\ cr.isNull = (total = 0)
     /\ Len(cr.regex) = Min(total, MaxPatterns)
     /\ Len(cr.mappings) = Len(cr.regex)
     /\ \A g \in 1..Len(groups) : \A k \in 1..Len(TrimmedWords(groups[g].words)) :
          LET i == WordsBefore(groups, g) + k
          IN i <= MaxPatterns
               => /\ cr.regex[i].word = TrimmedWords(groups[g].words)[k]
                  /\ cr.regex[i].whole = Truthy(groups[g], "matchWholeWords")
                  /\ cr.mappings[i].replacement =
                       (IF groups[g].replacement = <<>> THEN FallbackReplacement
                        ELSE groups[g].replacement)

C20_MatcherWithinCap ==
  /\ Len(compiledRegex.regex) <= MaxPatterns
  /\ Len(compiledRegex.mappings) = Len(compiledRegex.regex)
  /\ initPc = "done" => CompiledUnderCap(settings.replacementGroups, compiledRegex)
  /\ applied /\ settings.replacementGroups = BigGroups
       => doc["t1"] \in LoadTexts \cup {Rat \o <<" ">> \o WordOf(MaxPatterns + 1)}

\* 600 words were supplied, 500 compiled; the full pass has replaced the
\* word at the cap and left the one beyond it
C20_Witness ==
  /\ settings.replacementGroups = BigGroups
  /\ Len(compiledRegex.regex) = MaxPatterns
  /\ applied
  /\ doc["t1"] = Rat \o <<" ">> \o WordOf(MaxPatterns + 1)

\* the configuration names no usable word: no group, or groups whose words
\* are all empty once trimmed, or a word that cannot be compiled
NoUsableWord(groups) ==
  \/ groups = <<>>
  \/ \E i \in 1..Len(groups) : \E k \in 1..Len(groups[i].words) :
       NotAString \in Range(groups[i].words[k])
  \/ \A i \in 1..Len(groups) : \A k \in 1..Len(groups[i].words) :
       \A c \in Range(groups[i].words[k]) : IsSpace(c)

\* C21: while the configuration in memory has no group, only empty word
\* lists, or a word whose compilation fails, the matcher is null; and no step
\* of the engine that ends with a null matcher (a full pass, a mutation
\* batch, a change handler) changes the text of any node.
C21_NoMatcherNoWrite ==
  /\ [](NoUsableWord(settings.replacementGroups) => compiledRegex.isNull)
  /\ [][compiledRegex'.isNull /\ pageMutations' = pageMutations => doc' = doc]_vars

\* the options page has replaced a working list by one that cannot be
\* compiled, content was appended since, and the matching text stands
C21_Witness ==
  /\ initPc = "done" /\ ~idleCallback /\ notices = <<>> /\ records = <<>>
  /\ settings.enabled /\ observer = "connected"
  /\ Throws(settings.replacementGroups)
  /\ compiledRegex.isNull
  /\ storeWrites > 0 /\ pageMutations = MaxAppends /\ detached = {}
  /\ timers = 0
  /\ doc["t1"] = Cat

\* rewriting text raises an exception: the callback throws at one of the
\* occurrences replace visits
Raises(text, cr) ==
  \E h \in HitsFrom(text, 1, cr) :
    CallbackThrows(Occurrence(text, h, cr), Occurrence(text, h, cr), h[2], cr)

\* the text a scan of n leaves when cache holds the processed nodes: the
\* text as it was for a node that is passed over or whose rewriting raises,
\* the text replace returns for any other
AfterScan(n, cr, cache) ==
  IF n \in cache \/ shouldSkipNode(parentNode(n)) \/ Raises(doc[n], cr) THEN doc[n]
  ELSE RegexReplace(doc[n], cr)

\* C22: when rewriting a text node raises an exception, the node keeps its
\* text, every other node of the pass is scanned as it would have been (a
\* full traversal scans every eligible node of the document, a debounced
\* pass every queued one), and the debounced pass ends with an empty queue
\* and no timer.
C22_RaisingNodeStopsNothing ==
  /\ [][idleCallback /\ ~idleCallback' /\ settings.enabled /\ ~compiledRegex.isNull
          => \A n \in Range(WalkerTexts("html")) :
               doc'[n] = AfterScan(n, compiledRegex, {})]_vars
  /\ [][timers' < timers /\ pendingMutations # <<>>
          => /\ \A n \in Range(nodesToProcess(pendingMutations)) :
                  doc'[n] = AfterScan(n, compiledRegex, processedNodes)
             /\ pendingMutations' = <<>>
             /\ ~processingTimeout'
             /\ timers' = 0]_vars

\* the div was appended and its pass is over: rewriting the first node
\* raised and left "cat", the node after it was "rat" and reads "dot"
C22_Witness ==
  /\ initPc = "done" /\ ~idleCallback /\ records = <<>>
  /\ ~compiledRegex.isNull
  /\ pageMutations > 0
  /\ pendingMutations = <<>> /\ ~processingTimeout /\ timers = 0
  /\ doc["t1"] = Cat /\ Raises(doc["t1"], compiledRegex)
  /\ doc["t6"] = Dot
  /\ "t1" \notin processedNodes

\* the step is a full traversal: the idle callback's, or a change handler's
FullTraversalStep ==
  \/ idleCallback /\ ~idleCallback'
  \/ Len(notices') < Len(notices)
  \/ awaiting' # awaiting

\* C23: a traversal takes the eligible text nodes in batches of at most
\* BatchSize and yields between two batches: no single step of a traversal,
\* during which no other event can be handled, rewrites more than BatchSize
\* text nodes.
C23_TraversalYieldsBetweenBatches ==
  [][FullTraversalStep
       => Cardinality({n \in TextNodes : EngineWrote(n)}) <= BatchSize]_vars

\* what a debounced pass leaves when the engine's table holds only table
PassWithTable(table) ==
  replaceEach([doc |-> doc, processed |-> table, written |-> <<>>],
              nodesToProcess(pendingMutations), compiledRegex)

\* C24: the processed-node table is only a cache.  The full traversals and
\* the rebuilds start from an empty table whatever it held, and the mutation
\* callback only removes entries; the debounced pass is the one step that
\* consults the table.  An engine whose table was emptied at arbitrary
\* moments holds a part of the table of the engine that never empties it,
\* so the two end with the same texts only if every debounced pass that no
\* full traversal will follow leaves the same texts from any part of the
\* table.
C24_TableIsOnlyACache ==
  [][(/\ timers' < timers /\ pendingMutations # <<>> /\ pendingMutations' = <<>>
      /\ initPc = "done" /\ ~idleCallback)
       => \A table \in SUBSET processedNodes : PassWithTable(table).doc = doc']_vars

\* text with each of the occurrences hits replaced by what the callback
\* returns for it, and everything between them kept
RECURSIVE Spliced(_, _, _, _)
Spliced(text, i, hits, cr) ==
  IF i > Len(text) THEN <<>>
  ELSE IF \E h \in hits : h[1] = i
    THEN LET h == CHOOSE x \in hits : x[1] = i
             occurrence == Occurrence(text, h, cr)
         IN ToText(Callback(occurrence, occurrence, h[2], cr))
              \o Spliced(text, i + Len(occurrence), hits, cr)
  ELSE <<text[i]>> \o Spliced(text, i + 1, hits, cr)

\* the records of the step that an engine write of n left
WritesOf(n) ==
  {i \in 1..Len(records') : records'[i].target = n /\ records'[i].by = "engine"}

\* C25: a step of the engine (a full traversal or a debounced pass) writes a
\* text node at most once; the text it writes has every match in the node,
\* of whichever group, replaced; and a node without a match is not written.
C25_OneWriteReplacesAllMatches ==
  [][pageMutations' = pageMutations
       => \A n \in TextNodes :
            LET hits == HitsFrom(doc[n], 1, compiledRegex')
            IN /\ Cardinality(WritesOf(n)) <= 1
               /\ doc'[n] # doc[n] => doc'[n] = Spliced(doc[n], 1, hits, compiledRegex')
               /\ hits = {} => doc'[n] = doc[n] /\ WritesOf(n) = {}]_vars

\* "cat act cat" has just been rewritten: one write replaced the two
\* matches of the first group and the match of the second
C25_Witness ==
  /\ ~compiledRegex.isNull
  /\ doc["t1"] = Act \o <<" ">> \o Dot \o <<" ">> \o Act
  /\ Len(records) = 1
  /\ records[1].target = "t1" /\ records[1].by = "engine"

\* init is over and no change handler is suspended in loadSettings
NoHandlerInProgress ==
  /\ initPc = "done"
  /\ awaiting.get1 = 0
  /\ awaiting.get2 = 0

\* C26: whenever init is over and no change handler is in progress, the
\* observer is connected exactly when the enabled flag in memory is true.
C26_ObserverFollowsEnabled ==
  NoHandlerInProgress => ((observer = "connected") <=> settings.enabled)

\* C27: the install handler writes the defaults only into a store without
\* an enabled key: when its write is due and the store holds an enabled key,
\* put there before the handler read the store or since, every stored key
\* stays as it is.
C27_InstallKeepsStoredSettings ==
  [][installPc = "write" /\ installPc' = "idle" /\ "enabled" \in store.keys
       => store' = store]_vars

====
